---------------------------- MODULE Spec2Model ----------------------------
(***************************************************************************)
(* Model of bangumi_parser: BangumiConfig's default rule set, the          *)
(* extraction functions of BangumiParser, and the pipeline                 *)
(* scan -> group_series -> analyze_series -> merge_same_season_series ->   *)
(* merge_multi_season_series (a loop of BangumiInfo.add_season).           *)
(*                                                                         *)
(* A Python str is a sequence of one-character strings.  A character       *)
(* outside ASCII, and the quote, backslash and backquote, are written by   *)
(* their code point: "u7B2C" is U+7B2C.                                    *)
(***************************************************************************)
EXTENDS Integers, Sequences, FiniteSets, TLC

(***************************************************************************)
(* Characters and strings                                                  *)
(***************************************************************************)

\* The printable ASCII characters in code point order, 32 .. 126.
Ascii ==
  << " ", "!", "u0022", "#", "$", "%", "&", "'", "(", ")", "*", "+", ",", "-",
     ".", "/", "0", "1", "2", "3", "4", "5", "6", "7", "8", "9", ":", ";",
     "<", "=", ">", "?", "@", "A", "B", "C", "D", "E", "F", "G", "H", "I",
     "J", "K", "L", "M", "N", "O", "P", "Q", "R", "S", "T", "U", "V", "W",
     "X", "Y", "Z", "[", "u005C", "]", "^", "_", "u0060", "a", "b", "c", "d", "e",
     "f", "g", "h", "i", "j", "k", "l", "m", "n", "o", "p", "q", "r", "s",
     "t", "u", "v", "w", "x", "y", "z", "{", "|", "}", "~" >>

\* The characters outside ASCII that the rule set and the merge use.
Wide ==
  [ u3010 |-> 12304, u3011 |-> 12305, u300E |-> 12302, u300F |-> 12303,
    u5B63 |-> 23395, u671F |-> 26399, u672A |-> 26410, u77E5 |-> 30693,
    u7B2C |-> 31532, u8A71 |-> 35441, u8BDD |-> 35805, u96C6 |-> 38598 ]


\* ord(c)
CodePoint(c) ==
  CASE c \in DOMAIN Wide -> Wide[c]
    [] c = "\t" -> 9
    [] c = "\n" -> 10
    [] c = "\f" -> 12
    [] c = "\r" -> 13
    [] OTHER -> 31 + (CHOOSE i \in 1..Len(Ascii) : Ascii[i] = c)

\* The element of a singleton set.  TheOne({ F(v) : v \in {e} }) evaluates e
\* once and names its value v, as an assignment to a local variable does.
TheOne(S) == CHOOSE v \in S : TRUE

SetMax(S) == CHOOSE x \in S : \A y \in S : y <= x
SetMin(S) == CHOOSE x \in S : \A y \in S : x <= y

\* c.swapcase(): the other case variant of a letter.  re.IGNORECASE lets a
\* character match its two case variants.
SwapCaseTable ==
  [ A |-> "a", B |-> "b", C |-> "c", D |-> "d", E |-> "e", F |-> "f", G |-> "g",
    H |-> "h", I |-> "i", J |-> "j", K |-> "k", L |-> "l", M |-> "m", N |-> "n",
    O |-> "o", P |-> "p", Q |-> "q", R |-> "r", S |-> "s", T |-> "t", U |-> "u",
    V |-> "v", W |-> "w", X |-> "x", Y |-> "y", Z |-> "z",
    a |-> "A", b |-> "B", c |-> "C", d |-> "D", e |-> "E", f |-> "F", g |-> "G",
    h |-> "H", i |-> "I", j |-> "J", k |-> "K", l |-> "L", m |-> "M", n |-> "N",
    o |-> "O", p |-> "P", q |-> "Q", r |-> "R", s |-> "S", t |-> "T", u |-> "U",
    v |-> "V", w |-> "W", x |-> "X", y |-> "Y", z |-> "Z" ]

SwapCase(c) ==
  TheOne({ IF c \in DOMAIN table THEN table[c] ELSE c : table \in {SwapCaseTable} })

\* x < y on characters
CharLess(x, y) ==
  TheOne({ ord[1] < ord[2] : ord \in {[n \in 1..2 |-> CodePoint(<< x, y >>[n])]} })

\* a < b on str: lexicographic by code point, a proper prefix is smaller
StrLess(a, b) ==
  \E i \in 1..Len(b) :
    /\ \A j \in 1..(i - 1) : j <= Len(a) /\ a[j] = b[j]
    /\ (i > Len(a) \/ CharLess(a[i], b[i]))

DecimalDigits == << "0", "1", "2", "3", "4", "5", "6", "7", "8", "9" >>

Digits == {"0", "1", "2", "3", "4", "5", "6", "7", "8", "9"}

\* str.isspace characters (the \s class)
Whitespace == {" ", "\t", "\n", "\r", "\f"}

\* int(s) for a string of decimal digits
RECURSIVE ToInt(_)
ToInt(s) ==
  IF s = <<>> THEN 0
  ELSE 10 * ToInt(SubSeq(s, 1, Len(s) - 1))
       + (CHOOSE d \in 0..9 : DecimalDigits[d + 1] = s[Len(s)])

\* str(n) for n >= 0
RECURSIVE Decimal(_)
Decimal(n) ==
  IF n < 10 THEN << DecimalDigits[n + 1] >>
  ELSE Append(Decimal(n \div 10), DecimalDigits[(n % 10) + 1])

\* f"{n}": the number without the padding to two digits
FormatPlain(n) == Decimal(n)

\* f"{n:02d}" for n >= 0
Format02d(n) == IF n < 10 THEN <<"0">> \o Decimal(n) ELSE Decimal(n)

\* s[i:] starts with t
StartsAt(s, i, t) ==
  /\ i + Len(t) - 1 <= Len(s)
  /\ \A j \in 1..Len(t) : s[i + j - 1] = t[j]

\* t in s
Contains(s, t) == \E i \in 1..(Len(s) + 1) : StartsAt(s, i, t)

\* s.find(t, from - 1) + 1: the start of the first occurrence of t in s at
\* position from or later, 0 when there is none
FindFrom(s, t, from) ==
  TheOne({ IF is = {} THEN 0 ELSE SetMin(is)
           : is \in {{i \in from..(Len(s) + 1) : StartsAt(s, i, t)}} })

\* s.replace(old, new) for a non-empty old, from position from on
RECURSIVE StrReplaceFrom(_, _, _, _)
StrReplaceFrom(s, old, new, from) ==
  TheOne({ IF i = 0 THEN SubSeq(s, from, Len(s))
           ELSE SubSeq(s, from, i - 1) \o new
                \o StrReplaceFrom(s, old, new, i + Len(old))
           : i \in {FindFrom(s, old, from)} })

StrReplace(s, old, new) == StrReplaceFrom(s, old, new, 1)

\* s.strip()
Strip(s) ==
  TheOne({ IF is = {} THEN <<>> ELSE SubSeq(s, SetMin(is), SetMax(is))
           : is \in {{i \in 1..Len(s) : s[i] \notin Whitespace}} })

\* the parts of s between the positions of seps (a set of indexes), those
\* positions left out, from position from on
RECURSIVE PartsFrom(_, _, _)
PartsFrom(s, seps, from) ==
  TheOne({ IF later = {} THEN << SubSeq(s, from, Len(s)) >>
           ELSE << SubSeq(s, from, SetMin(later) - 1) >>
                \o PartsFrom(s, seps, SetMin(later) + 1)
           : later \in {{i \in seps : i >= from}} })

\* s.split(sep) for a one-character sep
SplitOn(s, sep) == PartsFrom(s, {i \in 1..Len(s) : s[i] = sep}, 1)

\* s.split(): the maximal runs of non-whitespace, in order
SplitWords(s) ==
  SelectSeq(PartsFrom(s, {i \in 1..Len(s) : s[i] \in Whitespace}, 1),
            LAMBDA part : part # <<>>)

\* the index of the last "/" of a path, 0 when there is none
LastSep(path) ==
  TheOne({ IF is = {} THEN 0 ELSE SetMax(is)
           : is \in {{i \in 1..Len(path) : path[i] = "/"}} })

\* os.path.basename(path), posix
Basename(path) == SubSeq(path, LastSep(path) + 1, Len(path))

\* os.path.dirname(path), posix, for a normalised relative path
Dirname(path) == SubSeq(path, 1, LastSep(path) - 1)

(***************************************************************************)
(* Regular expressions.  A pattern is a sequence of atoms:                 *)
(*   cls  a character class with a repetition min..max (max = -1: no       *)
(*        limit), greedy or lazy; cap marks capturing group 1;             *)
(*   alt  an ordered alternation of literal strings;                       *)
(*   eos  the end of the subject, or the newline that ends it ($).         *)
(* Matching follows the backtracking order of Python's re module.          *)
(***************************************************************************)
Cls(chars, min, max) ==
  [kind |-> "cls", chars |-> chars, any |-> FALSE, min |-> min, max |-> max,
   lazy |-> FALSE, cap |-> FALSE]
Cap(chars, min, max) ==
  [kind |-> "cls", chars |-> chars, any |-> FALSE, min |-> min, max |-> max,
   lazy |-> FALSE, cap |-> TRUE]
\* (.*?)
CapLazyAny ==
  [kind |-> "cls", chars |-> {}, any |-> TRUE, min |-> 0, max |-> -1,
   lazy |-> TRUE, cap |-> TRUE]
Alt(alts) == [kind |-> "alt", alts |-> alts]
Lit(s) == [kind |-> "alt", alts |-> << s >>]
Eos == [kind |-> "eos"]

NoMatch == [ok |-> FALSE, start |-> 0, end |-> 0, group |-> <<>>]

InClass(a, c, ic) ==
  \/ a.any /\ c # "\n"
  \/ c \in a.chars
  \/ ic /\ SwapCase(c) \in a.chars

\* s[pos:] starts with the literal t, ignoring case when ic
LitAt(s, pos, t, ic) ==
  /\ pos + Len(t) - 1 <= Len(s)
  /\ \A j \in 1..Len(t) :
       s[pos + j - 1] = t[j] \/ (ic /\ SwapCase(s[pos + j - 1]) = t[j])

\* the length of the longest run of class characters at pos, at most lim
RunLen(a, s, pos, lim, ic) ==
  SetMax({n \in 0..lim : /\ pos + n - 1 <= Len(s)
                         /\ \A j \in 0..(n - 1) : InClass(a, s[pos + j], ic)})

\* the positions at which a match of the atom a that starts at pos can end
Ends(a, s, pos, ic) ==
  CASE a.kind = "cls" ->
         {pos + n : n \in a.min..RunLen(a, s, pos,
                                        IF a.max < 0 THEN Len(s) ELSE a.max, ic)}
    [] a.kind = "alt" ->
         {pos + Len(a.alts[i]) : i \in {j \in 1..Len(a.alts) :
                                          LitAt(s, pos, a.alts[j], ic)}}
    [] a.kind = "eos" ->
         IF pos = Len(s) + 1 \/ (pos = Len(s) /\ s[pos] = "\n") THEN {pos} ELSE {}

\* the end the matcher tries first for the atom a at pos, among the ends
\* after which the rest of the pattern matches: the largest for a greedy
\* class, the smallest for a lazy one, that of the first alternative
PreferredEnd(a, s, pos, ends, ic) ==
  CASE a.kind = "cls" -> IF a.lazy THEN SetMin(ends) ELSE SetMax(ends)
    [] a.kind = "alt" ->
         pos + Len(a.alts[SetMin({i \in 1..Len(a.alts) :
                                    /\ LitAt(s, pos, a.alts[i], ic)
                                    /\ pos + Len(a.alts[i]) \in ends})])
    [] a.kind = "eos" -> pos

\* the match of the atom a at pos, given rest: for each end of the atom, the
\* match of the rest of the pattern from there
AtomMatch(a, s, pos, rest, ic) ==
  TheOne({ IF ends = {} THEN NoMatch
           ELSE TheOne({ [ ok |-> TRUE, start |-> pos, end |-> rest[e].end,
                           group |-> IF a.kind = "cls" /\ a.cap
                                     THEN SubSeq(s, pos, e - 1)
                                     ELSE rest[e].group ]
                         : e \in {PreferredEnd(a, s, pos, ends, ic)} })
           : ends \in {{e \in DOMAIN rest : rest[e].ok}} })

\* atoms k.. of p matched at position pos of s: the first match in
\* backtracking order; end is the position after the match
RECURSIVE MatchFrom(_, _, _, _, _)
MatchFrom(p, s, k, pos, ic) ==
  IF k > Len(p) THEN [ok |-> TRUE, start |-> pos, end |-> pos, group |-> <<>>]
  ELSE TheOne({ AtomMatch(p[k], s, pos, rest, ic)
                : rest \in {[e \in Ends(p[k], s, pos, ic) |->
                               MatchFrom(p, s, k + 1, e, ic)]} })

\* re.match(p, s): a match at the start of s
ReMatch(p, s, ic) == MatchFrom(p, s, 1, 1, ic)

\* the first of the matches ms (a function from start positions) in order
FirstMatch(ms) ==
  TheOne({ IF starts = {} THEN NoMatch ELSE ms[SetMin(starts)]
           : starts \in {{i \in DOMAIN ms : ms[i].ok}} })

\* the leftmost match of p in s starting at position from or later
ReSearchFrom(p, s, from, ic) ==
  TheOne({ FirstMatch(ms)
           : ms \in {[i \in from..(Len(s) + 1) |-> MatchFrom(p, s, 1, i, ic)]} })

\* re.search(p, s)
ReSearch(p, s, ic) == ReSearchFrom(p, s, 1, ic)

\* re.sub(p, repl, s) for a pattern that matches no empty string
RECURSIVE ReSubFrom(_, _, _, _, _)
ReSubFrom(p, repl, s, from, ic) ==
  TheOne({ IF ~m.ok THEN SubSeq(s, from, Len(s))
            ELSE SubSeq(s, from, m.start - 1) \o repl
                 \o ReSubFrom(p, repl, s, m.end, ic)
            : m \in {ReSearchFrom(p, s, from, ic)} })

ReSub(p, repl, s, ic) == ReSubFrom(p, repl, s, 1, ic)

\* re.findall(p, s) for a pattern with one group: the group of every
\* non-overlapping match, left to right
RECURSIVE ReFindAllFrom(_, _, _, _)
ReFindAllFrom(p, s, from, ic) ==
  TheOne({ IF ~m.ok THEN <<>>
            ELSE << m.group >> \o ReFindAllFrom(p, s, m.end, ic)
            : m \in {ReSearchFrom(p, s, from, ic)} })

ReFindAll(p, s, ic) == ReFindAllFrom(p, s, 1, ic)

(***************************************************************************)
(* BangumiConfig._load_default_config: the default rule set                *)
(***************************************************************************)
known_release_groups ==
  << <<"L", "o", "l", "i", "H", "o", "u", "s", "e">>,
     <<"S", "a", "k", "u", "r", "a", "t", "o">>,
     <<"N", "e", "k", "o", "m", "o", "e", " ", "k", "i", "s", "s", "a", "t", "e", "n">>,
     <<"A", "N", "i">>,
     <<"N", "C", "-", "R", "a", "w", "s">>,
     <<"L", "e", "o", "p", "a", "r", "d", "-", "R", "a", "w", "s">>,
     <<"V", "C", "B", "-", "S", "t", "u", "d", "i", "o">>,
     <<"S", "w", "e", "e", "t", "S", "u", "b">>,
     <<"L", "i", "l", "i", "t", "h", "-", "R", "a", "w", "s">>,
     <<"G", "M", "-", "T", "e", "a", "m">>,
     <<"M", "C", "E">>,
     <<"K", "T", "X", "P">>,
     <<"C", "r", "i", "m", "s", "o", "n">>,
     <<"P", "h", "i", "l", "o", "s", "o", "p", "h", "y", "-", "R", "a", "w", "s">> >>

common_tags ==
  << <<"W", "e", "b", "R", "i", "p">>,
     <<"B", "D", "R", "i", "p">>,
     <<"H", "E", "V", "C">>,
     <<"A", "V", "C">>,
     <<"x", "2", "6", "4">>,
     <<"x", "2", "6", "5">>,
     <<"1", "0", "b", "i", "t">>,
     <<"8", "b", "i", "t">>,
     <<"1", "0", "8", "0", "p">>,
     <<"7", "2", "0", "p">>,
     <<"4", "8", "0", "p">>,
     <<"4", "K">>,
     <<"A", "A", "C">>,
     <<"F", "L", "A", "C">>,
     <<"A", "C", "3">>,
     <<"D", "T", "S">>,
     <<"S", "R", "T", "x", "2">>,
     <<"A", "S", "S", "x", "2">>,
     <<"C", "H", "S">>,
     <<"C", "H", "T">>,
     <<"J", "P">>,
     <<"E", "N", "G">>,
     <<"G", "B">>,
     <<"B", "I", "G", "5">> >>

\* mkv|mp4|avi|mov|wmv|flv|webm
VideoAlternatives ==
  << <<"m", "k", "v">>,
     <<"m", "p", "4">>,
     <<"a", "v", "i">>,
     <<"m", "o", "v">>,
     <<"w", "m", "v">>,
     <<"f", "l", "v">>,
     <<"w", "e", "b", "m">> >>

\* \.mkv|\.mp4|\.avi|\.mov|\.wmv|\.flv|\.webm
DotVideoAlternatives ==
  << <<".", "m", "k", "v">>,
     <<".", "m", "p", "4">>,
     <<".", "a", "v", "i">>,
     <<".", "m", "o", "v">>,
     <<".", "w", "m", "v">>,
     <<".", "f", "l", "v">>,
     <<".", "w", "e", "b", "m">> >>

StrEpisode == <<"E", "p", "i", "s", "o", "d", "e">>

StrEp == <<"E", "p">>

StrSeason == <<"S", "e", "a", "s", "o", "n">>

UnknownSeries == <<"U", "n", "k", "n", "o", "w", "n", " ", "S", "e", "r", "i", "e", "s">>

Placeholder == <<" ", "{", "E", "P", "_", "N", "U", "M", "}", " ">>

\* \d{1,2} as capturing group 1
EpDigits == Cap(Digits, 1, 2)

episode_patterns ==
  << << Cls({" ", "-", "_", "["}, 1, 1), EpDigits, Cls({" ", "-", "_", "]"}, 1, 1) >>,
     << Cls({"E", "e"}, 1, 1), Cls({"P", "p"}, 0, 1), EpDigits >>,
     << Lit(<<"u7B2C">>), EpDigits, Cls({"u8BDD", "u8A71", "u96C6"}, 1, 1) >>,
     << EpDigits, Cls({"u8BDD", "u8A71", "u96C6"}, 1, 1) >>,
     << Lit(<<"-", " ">>), EpDigits, Lit(<<".">>), Alt(VideoAlternatives) >>,
     << Lit(<<"S">>), Cls(Digits, 1, -1), Lit(<<"E">>), EpDigits >>,
     << Lit(<<".">>), EpDigits, Lit(<<".">>), Alt(VideoAlternatives) >>,
     << Lit(<<"_">>), EpDigits, Lit(<<"_">>) >>,
     << Cls(Whitespace, 1, 1), EpDigits, Cls(Whitespace, 1, 1) >>,
     << Alt(<< <<"u7B2C">>, StrEpisode, StrEp >>), EpDigits >> >>

season_patterns ==
  << << Lit(<<"S">>), EpDigits >>,
     << Lit(StrSeason), Cls(Whitespace, 0, -1), EpDigits >>,
     << Lit(<<"u7B2C">>), EpDigits, Cls({"u5B63", "u671F"}, 1, 1) >>,
     << EpDigits, Cls({"u5B63", "u671F"}, 1, 1) >> >>

bracket_patterns ==
  << << Lit(<<"[">>), CapLazyAny, Lit(<<"]">>) >>,
     << Lit(<<"(">>), CapLazyAny, Lit(<<")">>) >>,
     << Lit(<<"u3010">>), CapLazyAny, Lit(<<"u3011">>) >>,
     << Lit(<<"u300E">>), CapLazyAny, Lit(<<"u300F">>) >>,
     << Lit(<<"{">>), CapLazyAny, Lit(<<"}">>) >> >>

cleanup_patterns ==
  << << Alt(DotVideoAlternatives) >>,
     << Lit(<<"(">>), Cls(Digits, 4, 4), Lit(<<")">>) >>,
     << Cls(Digits, 4, 4) >>,
     << Lit(StrSeason), Cls(Whitespace, 0, -1), Cls(Digits, 1, -1) >>,
     << Lit(<<"u7B2C">>), Cls(Digits, 1, -1), Cls({"u5B63", "u671F"}, 1, 1) >>,
     << Cls(Digits, 1, -1), Cls({"u5B63", "u671F"}, 1, 1) >> >>

\* every pattern starts with ^, which re.match implies
ignore_directory_patterns ==
  << << Lit(StrSeason), Cls(Whitespace, 0, -1), Cls(Digits, 1, -1), Eos >>,
     << Lit(<<"S">>), Cls(Digits, 1, -1), Eos >>,
     << Lit(<<"u7B2C">>), Cls(Digits, 1, -1), Cls({"u5B63", "u671F"}, 1, 1), Eos >>,
     << Cls(Digits, 1, -1), Cls({"u5B63", "u671F"}, 1, 1), Eos >> >>

(***************************************************************************)
(* BangumiParser: the extraction functions.                                *)
(* Optional[T]: None is <<>>, a value x is <<x>>.                          *)
(***************************************************************************)
None == <<>>
Some(x) == << x >>

\* for pattern in ps: match = re.search(pattern, s, re.IGNORECASE);
\* if match: ...  The index k of the first pattern that matches and its
\* match m; k = 0 if none does
FirstMatching(ps, s) ==
  TheOne({ [k |-> IF \E i \in DOMAIN ms : ms[i].ok
                  THEN SetMin({i \in DOMAIN ms : ms[i].ok}) ELSE 0,
            m |-> FirstMatch(ms)]
           : ms \in {[i \in 1..Len(ps) |-> ReSearch(ps[i], s, TRUE)]} })

\* extract_series_info: (series_pattern, episode_num)
extract_series_info(filename) ==
  TheOne({ IF hit.k # 0
           THEN [pattern |-> ReSub(episode_patterns[hit.k], Placeholder, filename, TRUE),
                 ep |-> ToInt(hit.m.group)]
           ELSE [pattern |-> filename, ep |-> 0]
           : hit \in {FirstMatching(episode_patterns, Basename(filename))} })

\* extract_season_info
extract_season_info(path) ==
  TheOne({ IF hits[1].k # 0 THEN Some(ToInt(hits[1].m.group))
           ELSE IF hits[2].k # 0 THEN Some(ToInt(hits[2].m.group))
           ELSE None
           : hits \in {[t \in 1..2 |->
                          FirstMatching(season_patterns,
                                        << path, Basename(path) >>[t])]} })

\* extract_parameters_from_brackets
RECURSIVE FindAllBrackets(_, _)
FindAllBrackets(k, filename) ==
  IF k > Len(bracket_patterns) THEN <<>>
  ELSE ReFindAll(bracket_patterns[k], filename, FALSE) \o FindAllBrackets(k + 1, filename)

extract_parameters_from_brackets(filename) == FindAllBrackets(1, filename)

\* x in list
InList(list, x) == \E i \in 1..Len(list) : list[i] = x

\* the loops of identify_release_group the other way round: the first known
\* release group that some parameter contains
VocabularyFirst(parameters) ==
  TheOne({ IF hits = <<>> THEN None ELSE Some(hits[1])
           : hits \in {SelectSeq(known_release_groups,
                                 LAMBDA group : \E i \in 1..Len(parameters) :
                                                  Contains(parameters[i], group))} })

\* identify_release_group: the first group of the first parameter that
\* contains a known release group
identify_release_group(parameters) ==
  TheOne({ IF hits = <<>> THEN None ELSE Some(hits[1][1])
           : hits \in {SelectSeq([i \in 1..Len(parameters) |->
                                    SelectSeq(known_release_groups,
                                              LAMBDA group : Contains(parameters[i], group))],
                                 LAMBDA found : found # <<>>)} })

\* for x in xs: if x not in list: list.append(x)
RECURSIVE AppendNew(_, _)
AppendNew(list, xs) ==
  IF xs = <<>> THEN list
  ELSE AppendNew(IF InList(list, xs[1]) THEN list ELSE Append(list, xs[1]), Tail(xs))

IsTagWord(word) == \E t \in 1..Len(common_tags) : Contains(word, common_tags[t])

\* extract_tags
RECURSIVE extract_tags_from(_, _)
extract_tags_from(parameters, tags) ==
  IF parameters = <<>> THEN tags
  ELSE TheOne({ extract_tags_from(Tail(parameters), v)
                 : v \in {AppendNew(tags, SelectSeq(SplitWords(parameters[1]),
                                                    IsTagWord))} })

extract_tags(parameters) == extract_tags_from(parameters, <<>>)

\* for pattern in ps: s = re.sub(pattern, repl, s, flags=re.IGNORECASE)
RECURSIVE SubAll(_, _, _, _)
SubAll(ps, k, repl, s) ==
  IF k > Len(ps) THEN s
  ELSE TheOne({ SubAll(ps, k + 1, repl, v) : v \in {ReSub(ps[k], repl, s, TRUE)} })

\* the bracket pairs of the five str.replace calls, in order
ParamBrackets ==
  << << "[", "]" >>, << "(", ")" >>, << "u3010", "u3011" >>,
     << "u300E", "u300F" >>, << "{", "}" >> >>

\* the str.replace calls for one bracket parameter, from the k-th on
RECURSIVE RemoveParam(_, _, _)
RemoveParam(s, param, k) ==
  IF k > Len(ParamBrackets) THEN s
  ELSE TheOne({ RemoveParam(v, param, k + 1)
                : v \in {StrReplace(s, << ParamBrackets[k][1] >> \o param
                                         \o << ParamBrackets[k][2] >>, <<>>)} })

RECURSIVE RemoveParams(_, _)
RemoveParams(s, parameters) ==
  IF parameters = <<>> THEN s
  ELSE TheOne({ RemoveParams(v, Tail(parameters))
                 : v \in {RemoveParam(s, parameters[1], 1)} })

IsIgnoredDirectory(part) ==
  \E k \in 1..Len(ignore_directory_patterns) :
    ReMatch(ignore_directory_patterns[k], part, TRUE).ok

\* the filename fallback of extract_series_name_from_path
CleanName(base_name, parameters) ==
  TheOne({ Strip(ReSub(<< Cls({"-", "_"} \cup Whitespace, 1, -1) >>, <<" ">>, c3, FALSE))
    : c3 \in { SubAll(cleanup_patterns, 1, <<>>, c2)
    : c2 \in { RemoveParams(c1, parameters)
    : c1 \in { SubAll(episode_patterns, 1, <<" ">>, base_name) } } } })

\* the directory parts when the ignore patterns are not consulted
GoodPartsKeepingIgnored(path_parts) ==
  SelectSeq(path_parts, LAMBDA part : part # <<>>)

\* the directory parts that can name the series: not empty, not ignored
GoodParts(path_parts) ==
  SelectSeq(path_parts, LAMBDA part : part # <<>> /\ ~IsIgnoredDirectory(part))

\* series_name or "Unknown Series"
OrUnknown(series_name) == IF series_name # <<>> THEN series_name ELSE UnknownSeries

\* the title taken from the filename first, and from a directory only when
\* the cleaned-up filename is empty
TitleFromFilenameFirst(file_path, base_name, parameters) ==
  TheOne({ IF clean # <<>> THEN clean
           ELSE TheOne({ IF good # <<>> THEN good[Len(good)] ELSE UnknownSeries
                         : good \in {GoodParts(IF Dirname(file_path) # <<>>
                                               THEN SplitOn(Dirname(file_path), "/")
                                               ELSE <<>>)} })
           : clean \in {CleanName(base_name, parameters)} })

\* extract_series_name_from_path
extract_series_name_from_path(file_path, base_name, parameters) ==
  TheOne({ IF good # <<>> THEN good[Len(good)]
           ELSE OrUnknown(CleanName(base_name, parameters))
           : good \in {GoodParts(IF Dirname(file_path) # <<>>
                                 THEN SplitOn(Dirname(file_path), "/") ELSE <<>>)} })

(***************************************************************************)
(* A Python dict is the sequence of its items [k, v] in insertion order,   *)
(* with distinct keys.                                                     *)
(***************************************************************************)
DictKeys(d) == {d[i].k : i \in 1..Len(d)}
DictHas(d, k) == \E i \in 1..Len(d) : d[i].k = k
DictIdx(d, k) == CHOOSE i \in 1..Len(d) : d[i].k = k
DictGet(d, k) == d[DictIdx(d, k)].v
\* d[k] = v
DictSet(d, k, v) ==
  IF DictHas(d, k) THEN [d EXCEPT ![DictIdx(d, k)].v = v]
  ELSE Append(d, [k |-> k, v |-> v])
\* d.update(e)
RECURSIVE DictUpdate(_, _)
DictUpdate(d, e) ==
  IF e = <<>> THEN d
  ELSE DictUpdate(DictSet(d, e[1].k, e[1].v), Tail(e))

(***************************************************************************)
(* The input: what scan_directory can return.  CandidateFiles are the      *)
(* relative paths of video files that may be found, in any order of        *)
(* discovery, without repetition.                                          *)
(***************************************************************************)
MaxFiles == 3

CandidateFiles ==
  { <<"S", "h", "o", "w", "/", "S", "h", "o", "w", " ", "-", " ", "0", "1", ".", "m", "k", "v">>,
    <<"S", "h", "o", "w", "/", "S", "h", "o", "w", " ", "-", " ", "1", ".", "m", "k", "v">>,
    <<"S", "h", "o", "w", "/", "S", "h", "o", "w", " ", "-", " ", "0", "2", ".", "m", "k", "v">>,
    <<"S", "h", "o", "w", "/", "S", "h", "o", "w", " ", "E", "P", "0", "1", ".", "m", "k", "v">>,
    <<"S", "h", "o", "w", "/", "O", "V", "A", ".", "m", "k", "v">>,
    <<"S", "h", "o", "w", "/", "S", "P", ".", "m", "k", "v">>,
    <<"B", "/", "S", "h", "o", "w", "/", "S", "h", "o", "w", " ", "-", " ", "0", "1", ".", "m", "k", "v">>,
    <<"S", "h", "o", "w", "/", "S", "2", "/", "x", " ", "0", "1", " ", ".", "m", "p", "4">>,
    <<"S", "h", "o", "w", "/", "[", "A", "N", "i", "]", "[", "1", "0", "8", "0", "p", " ", "H", "E", "V", "C", "]", " ", "S", "h", "o", "w", " ", "E", "P", "0", "2", ".", "m", "k", "v">>,
    <<"S", "h", "o", "w", ".", "m", "k", "v">>,
    <<"S", "h", "o", "w", "/", "S", "e", "a", "s", "o", "n", " ", "2", "/", "S", "h", "o", "w", " ", "-", " ", "0", "1", ".", "m", "k", "v">>,
    <<"S", "2", "/", "E", "P", "0", "1", ".", "m", "k", "v">>,
    <<"S", "h", "o", "w", "/", "[", "x", "]", "[", "K", "T", "X", "P", " ", "M", "C", "E", "]", "[", "A", "N", "i", " ", "H", "E", "V", "C", " ", "A", "A", "C", "]", " ", "3", " ", ".", "m", "k", "v">>,
    <<"S", "h", "o", "w", "/", "S", "0", "E", "0", "1", ".", "m", "k", "v">>,
    <<"S", "h", "o", "w", "/", "S", "1", "E", "0", "1", ".", "m", "k", "v">>,
    <<"S", "h", "o", "w", "/", "[", "K", "T", "X", "P", "]", "[", "F", "L", "A", "C", " ", "A", "A", "C", "]", " ", "S", "P", ".", "m", "k", "v">>,
    <<"B", "/", "S", "h", "o", "w", "/", "[", "M", "C", "E", "]", "[", "A", "A", "C", " ", "H", "E", "V", "C", "]", " ", "4", " ", ".", "m", "k", "v">> }

\* the sequences of at most n elements of S without repetition
Arrangements(S, n) ==
  UNION { { q \in [1..m -> S] : \A i, j \in 1..m : i # j => q[i] # q[j] }
          : m \in 0..n }

\* the directory dir is the directory top or lies under it
IsUnder(dir, top) ==
  \/ top = <<>>
  \/ dir = top
  \/ Len(dir) > Len(top) /\ SubSeq(dir, 1, Len(top)) = top /\ dir[Len(top) + 1] = "/"

\* the directory dir and the directories above it
Ancestors(dir) ==
  {SubSeq(dir, 1, n) : n \in {m \in 0..Len(dir) : m = Len(dir) \/ dir[m + 1] = "/"}}

\* an order in which os.walk can yield the files q: top-down, the files of
\* a directory before those of its sub-directories, the files below one
\* directory in one stretch; within a directory and among sibling
\* directories in any order
IsWalkOrder(q) ==
  \A i, k \in 1..Len(q) :
    i < k =>
      /\ Dirname(q[i]) = Dirname(q[k]) \/ ~IsUnder(Dirname(q[i]), Dirname(q[k]))
      /\ \A top \in Ancestors(Dirname(q[i])) :
           IsUnder(Dirname(q[k]), top) =>
             \A j \in i..k : IsUnder(Dirname(q[j]), top)

\* what scan_directory can return for a directory that holds some of the
\* candidate files
ScanResults == {q \in Arrangements(CandidateFiles, MaxFiles) : IsWalkOrder(q)}

(***************************************************************************)
(* BangumiParser.group_series                                              *)
(***************************************************************************)
\* the order of sort(key=lambda item: item[0]): by episode number alone
TupleLessByEpisode(a, b) == a.ep < b.ep

\* (a.ep, a.path) < (b.ep, b.path) on Python tuples
TupleLess(a, b) == a.ep < b.ep \/ (a.ep = b.ep /\ StrLess(a.path, b.path))

\* x placed into an ascending list, after the elements that are not greater
\* x placed into an ascending list, after the elements that are not greater
RECURSIVE InsertSorted(_, _)
InsertSorted(list, x) ==
  IF list = <<>> THEN << x >>
  ELSE IF TupleLess(x, list[1]) THEN << x >> \o list
  ELSE << list[1] >> \o InsertSorted(Tail(list), x)

\* list.sort() on a list of (episode_num, video) tuples
RECURSIVE SortVideos(_)
SortVideos(list) ==
  IF list = <<>> THEN <<>>
  ELSE InsertSorted(SortVideos(SubSeq(list, 1, Len(list) - 1)), list[Len(list)])

\* extract_series_info(video) for every video that can be found
SeriesInfoOf == [video \in CandidateFiles |-> extract_series_info(video)]

\* series_groups[series_pattern].append((episode_num, video)) on a
\* defaultdict(list)
AppendToGroup(groups, series_pattern, item) ==
  DictSet(groups, series_pattern,
          IF DictHas(groups, series_pattern)
          THEN Append(DictGet(groups, series_pattern), item)
          ELSE << item >>)

\* the loop over self.video_files
RECURSIVE AppendToGroups(_, _)
AppendToGroups(groups, videos) ==
  IF videos = <<>> THEN groups
  ELSE TheOne({ AppendToGroups(g, Tail(videos))
         : g \in { AppendToGroup(groups, e.pattern, [ep |-> e.ep, path |-> videos[1]])
         : e \in {SeriesInfoOf[videos[1]]} } })

\* the loop that sorts each group
SortGroups(groups) ==
  [i \in 1..Len(groups) |-> [k |-> groups[i].k, v |-> SortVideos(groups[i].v)]]

\* group_series
group_series(videos) ==
  TheOne({ SortGroups(groups) : groups \in {AppendToGroups(<<>>, videos)} })

(***************************************************************************)
(* BangumiParser.analyze_series                                            *)
(***************************************************************************)
\* the loop that fills episode_map
RECURSIVE EpisodeMap(_, _)
EpisodeMap(map, videos) ==
  IF videos = <<>> THEN map
  ELSE EpisodeMap(DictSet(map, Format02d(videos[1].ep), videos[1].path), Tail(videos))

\* what analyze_series derives from the sample file of a group
AnalyzeSample(sample_file) ==
  TheOne({ [ dir_name |-> Dirname(sample_file),
             release_group |-> identify_release_group(parameters),
             tags |-> extract_tags(parameters),
             season |-> extract_season_info(sample_file),
             series_name |-> extract_series_name_from_path(sample_file,
                                                           Basename(sample_file),
                                                           parameters) ]
           : parameters \in {extract_parameters_from_brackets(Basename(sample_file))} })

\* AnalyzeSample(video) for every video that can be found
SampleOf == [video \in CandidateFiles |-> AnalyzeSample(video)]

\* the SeriesInfo that analyze_series builds for one group
AnalyzeGroup(pattern, videos) ==
  TheOne({ [ pattern |-> pattern,
             sample_file |-> videos[1].path,
             dir_name |-> sample.dir_name,
             release_group |-> sample.release_group,
             tags |-> sample.tags,
             season |-> sample.season,
             series_name |-> sample.series_name,
             episodes |-> EpisodeMap(<<>>, videos),
             episode_count |-> Len(videos) ]
           : sample \in {SampleOf[videos[1].path]} })

\* self.series_info is a dict from pattern to SeriesInfo: it is modelled as the
\* sequence of its values, in insertion order; the key of a value is its
\* pattern field, and the index of a value is the identity of the object.
analyze_series(groups) ==
  [i \in 1..Len(groups) |-> AnalyzeGroup(groups[i].k, groups[i].v)]

(* BangumiParser.merge_same_season_series                                  *)
(***************************************************************************)
\* x or 1 for an Optional[int]
SeasonOr1(season) == IF season = None \/ season[1] = 0 THEN 1 ELSE season[1]

\* the truth value of an Optional[str]
Truthy(opt) == opt # None /\ opt[1] # <<>>

\* a key without the directory
GroupKeyWithoutDirectory(info) == << info.series_name, SeasonOr1(info.season) >>

\* key = (info.series_name, info.dir_name, info.season or 1)
GroupKey(info) == << info.series_name, info.dir_name, SeasonOr1(info.season) >>

\* groups[key].append(...): a dict from key to the list of the objects
\* (indexes into infos) with that key, the objects ids taken in order
RECURSIVE GroupByKey(_, _, _)
GroupByKey(groups, infos, ids) ==
  IF ids = <<>> THEN groups
  ELSE LET key == GroupKey(infos[ids[1]])
       IN GroupByKey(IF DictHas(groups, key)
                     THEN DictSet(groups, key, Append(DictGet(groups, key), ids[1]))
                     ELSE DictSet(groups, key, << ids[1] >>),
                     infos, Tail(ids))

EpisodeZero == <<"0", "0">>

\* priority_key
priority_key(info) ==
  [ episode_count |-> info.episode_count,
    has_specific_episodes |-> \E i \in 1..Len(info.episodes) :
                                info.episodes[i].k # EpisodeZero ]

\* the order of a sort without reverse=True
PriorityLessAscending(a, b) ==
  \/ a.episode_count > b.episode_count
  \/ /\ a.episode_count = b.episode_count
     /\ a.has_specific_episodes /\ ~b.has_specific_episodes

\* a < b on the tuples priority_key returns (False < True)
PriorityLess(a, b) ==
  \/ a.episode_count < b.episode_count
  \/ /\ a.episode_count = b.episode_count
     /\ ~a.has_specific_episodes /\ b.has_specific_episodes

\* id placed into a list in descending priority, after the ids that are not
\* smaller: sort(key=priority_key, reverse=True) keeps the order of equals
RECURSIVE InsertByPriority(_, _, _)
InsertByPriority(list, id, infos) ==
  IF list = <<>> THEN << id >>
  ELSE IF PriorityLess(priority_key(infos[list[1]]), priority_key(infos[id]))
       THEN << id >> \o list
       ELSE << list[1] >> \o InsertByPriority(Tail(list), id, infos)

\* series_list.sort(key=priority_key, reverse=True)
RECURSIVE SortByPriority(_, _)
SortByPriority(list, infos) ==
  IF list = <<>> THEN <<>>
  ELSE InsertByPriority(SortByPriority(SubSeq(list, 1, Len(list) - 1), infos),
                        list[Len(list)], infos)

\* the synthetic key for counter
UnknownKey(counter) == <<"u672A", "u77E5", "u96C6">> \o Format02d(counter)


\* the counter without the while loop that probes for a free key
ProbeCounterOnce(episodes, counter) == counter

\* the while loop: the first counter >= the given one whose key is free
RECURSIVE ProbeCounter(_, _)
ProbeCounter(episodes, counter) ==
  IF DictHas(episodes, UnknownKey(counter)) THEN ProbeCounter(episodes, counter + 1)
  ELSE counter

\* an iteration that assigns without the test "ep_num not in main_info.episodes"
MergeEpisodeOverwriting(main_episodes, ep_num, file_path) ==
  IF ep_num = EpisodeZero
  THEN DictSet(main_episodes, UnknownKey(ProbeCounter(main_episodes, 1)), file_path)
  ELSE DictSet(main_episodes, ep_num, file_path)

\* one iteration of the loop over info.episodes.items()
MergeEpisode(main_episodes, ep_num, file_path) ==
  IF ep_num = EpisodeZero
  THEN DictSet(main_episodes, UnknownKey(ProbeCounter(main_episodes, 1)), file_path)
  ELSE IF ~DictHas(main_episodes, ep_num)
       THEN DictSet(main_episodes, ep_num, file_path)
       ELSE main_episodes

RECURSIVE MergeEpisodes(_, _)
MergeEpisodes(main_episodes, episodes) ==
  IF episodes = <<>> THEN main_episodes
  ELSE MergeEpisodes(MergeEpisode(main_episodes, episodes[1].k, episodes[1].v),
                     Tail(episodes))

\* a loop body that appends every tag, without the test "tag not in
\* main_info.tags"
FoldIntoAppendingAllTags(main_info, info) ==
  [ main_info EXCEPT
      !.episodes = MergeEpisodes(main_info.episodes, info.episodes),
      !.tags = main_info.tags \o info.tags,
      !.release_group =
         IF ~Truthy(main_info.release_group) /\ Truthy(info.release_group)
         THEN info.release_group ELSE main_info.release_group ]

\* a loop body that takes the release group of every member that has one,
\* without the test "not main_info.release_group"
FoldIntoOverwritingGroup(main_info, info) ==
  [ main_info EXCEPT
      !.episodes = MergeEpisodes(main_info.episodes, info.episodes),
      !.tags = AppendNew(main_info.tags, info.tags),
      !.release_group =
         IF Truthy(info.release_group)
         THEN info.release_group ELSE main_info.release_group ]

\* the body of the loop over series_list[1:]: info folded into main_info
FoldInto(main_info, info) ==
  [ main_info EXCEPT
      !.episodes = MergeEpisodes(main_info.episodes, info.episodes),
      !.tags = AppendNew(main_info.tags, info.tags),
      !.release_group =
         IF ~Truthy(main_info.release_group) /\ Truthy(info.release_group)
         THEN info.release_group ELSE main_info.release_group ]

RECURSIVE FoldAll(_, _, _)
FoldAll(main_info, others, infos) ==
  IF others = <<>> THEN main_info
  ELSE FoldAll(FoldInto(main_info, infos[others[1]]), Tail(others), infos)

\* main_info.episode_count = len(main_info.episodes)
UpdateEpisodeCount(main_info) ==
  [main_info EXCEPT !.episode_count = Len(main_info.episodes)]

\* the else branch for a group of several members: the base and what the
\* merge makes of it
MergeGroup(series_list, infos) ==
  TheOne({ [ main |-> sorted[1],
             info |-> UpdateEpisodeCount(FoldAll(infos[sorted[1]], Tail(sorted), infos)) ]
           : sorted \in {SortByPriority(series_list, infos)} })

\* a loop body without the branch for a group of one
MergeAlways(series_list, infos) == MergeGroup(series_list, infos)

\* the body of the loop over groups.items(): the record that goes into
\* merged_series, and the state of that record
MergeOrKeep(series_list, infos) ==
  IF Len(series_list) = 1
  THEN [main |-> series_list[1], info |-> infos[series_list[1]]]
  ELSE MergeGroup(series_list, infos)

\* the loop over groups.items(): merged is the list of the ids of the
\* returned dict in insertion order, infos the objects after the mutations
RECURSIVE MergeGroups(_, _, _)
MergeGroups(groups, merged, infos) ==
  IF groups = <<>> THEN [merged |-> merged, infos |-> infos]
  ELSE TheOne({ MergeGroups(Tail(groups), Append(merged, m.main),
                            [infos EXCEPT ![m.main] = m.info])
                : m \in {MergeOrKeep(groups[1].v, infos)} })

\* merge_same_season_series(series_info), where ids lists the objects of
\* the argument in the order of the dict
merge_same_season_series(infos, ids) ==
  MergeGroups(GroupByKey(<<>>, infos, ids), <<>>, infos)

(***************************************************************************)
(* BangumiConfig: the attributes of a configuration object and the loading *)
(* of a custom configuration file                                          *)
(***************************************************************************)

\* Python values held in attributes or decoded from JSON: the type and, for
\* a list its elements, for a str its characters
PyList(items) == [t |-> "list", v |-> items]
PyStr(s) == [t |-> "str", v |-> s]
PyNone == [t |-> "NoneType", v |-> <<>>]
PyInt == [t |-> "int", v |-> <<>>]
PyMethod == [t |-> "method", v |-> <<>>]

\* bool(value) of a str or None
PyTruthy(value) == value.v # <<>>

video_extensions ==
  << <<".", "m", "p", "4">>,
     <<".", "m", "k", "v">>,
     <<".", "a", "v", "i">>,
     <<".", "m", "o", "v">>,
     <<".", "w", "m", "v">>,
     <<".", "f", "l", "v">>,
     <<".", "w", "e", "b", "m">> >>

\* the attributes of a BangumiConfig after _load_default_config: what
\* hasattr finds, the methods of the class included
DefaultConfig(path) ==
  [ config_path |-> path,
    video_extensions |-> PyList(video_extensions),
    known_release_groups |-> PyList(known_release_groups),
    common_tags |-> PyList(common_tags),
    bracket_patterns |-> PyList(bracket_patterns),
    episode_patterns |-> PyList(episode_patterns),
    season_patterns |-> PyList(season_patterns),
    cleanup_patterns |-> PyList(cleanup_patterns),
    ignore_directory_patterns |-> PyList(ignore_directory_patterns),
    _load_default_config |-> PyMethod,
    _load_custom_config |-> PyMethod,
    add_release_group |-> PyMethod,
    add_tag |-> PyMethod,
    add_episode_pattern |-> PyMethod,
    save_config |-> PyMethod,
    get_config_dict |-> PyMethod ]

\* the elements list.extend(value) iterates over: the elements of a list,
\* the characters of a str
PyIter(value) ==
  IF value.t = "list" THEN value.v ELSE [i \in 1..Len(value.v) |-> << value.v[i] >>]

\* the body of the loop of _load_custom_config for one item: the attributes
\* afterwards, and whether the body raised (extend of a value that is not
\* iterable raises TypeError)
ApplyCustomEntry(config, key, value) ==
  IF key \notin DOMAIN config THEN [raised |-> FALSE, config |-> config]
  ELSE IF config[key].t = "list"
       THEN IF value.t \in {"list", "str"}
            THEN [raised |-> FALSE,
                  config |-> [config EXCEPT ![key] = PyList(@.v \o PyIter(value))]]
            ELSE [raised |-> TRUE, config |-> config]
       ELSE [raised |-> FALSE, config |-> [config EXCEPT ![key] = value]]

\* the most items a custom configuration file holds
MaxEntries == 2

\* the keys and the values of the items of a custom configuration file
CustomKeys ==
  {"known_release_groups", "common_tags", "episode_patterns", "config_path",
   "add_tag", "title"}

CustomValues ==
  {PyList(<< <<"X">> >>), PyList(<<>>), PyStr(<<"a", "b">>), PyInt, PyNone}

\* the JSON objects of a custom configuration file: their items in the
\* order of the file, no key twice
CustomObjects ==
  UNION { {items \in [1..n -> [k : CustomKeys, v : CustomValues]] :
             \A i, j \in 1..n : i # j => items[i].k # items[j].k}
          : n \in 0..MaxEntries }

\* what is at config_path: nothing, a file that cannot be read, a file that
\* is not JSON, a JSON array, a JSON object
ConfigFiles ==
  {[exists |-> FALSE, kind |-> "none", items |-> <<>>],
   [exists |-> TRUE, kind |-> "unreadable", items |-> <<>>],
   [exists |-> TRUE, kind |-> "invalid_json", items |-> <<>>],
   [exists |-> TRUE, kind |-> "array", items |-> <<>>]}
  \cup {[exists |-> TRUE, kind |-> "object", items |-> items] : items \in CustomObjects}

\* the config_path arguments: None, the empty string, a path
ConfigPaths == {PyNone, PyStr(<<>>), PyStr(<<"c", ".", "j", "s", "o", "n">>)}

(***************************************************************************)
(* BangumiInfo                                                             *)
(***************************************************************************)
\* BangumiInfo.__init__
NewBangumiInfo ==
  [ series_name |-> <<>>, seasons |-> <<>>, total_episodes |-> 0,
    season_count |-> 0, release_groups |-> <<>>, tags |-> <<>> ]

\* the sum taken before the newest season slot is counted
RECURSIVE SumEpisodeCountsOfOlder(_, _)
SumEpisodeCountsOfOlder(seasons, infos) ==
  IF Len(seasons) <= 1 THEN 0
  ELSE infos[seasons[1].v].episode_count + SumEpisodeCountsOfOlder(Tail(seasons), infos)

\* sum(info.episode_count for info in self.seasons.values())
RECURSIVE SumEpisodeCounts(_, _)
SumEpisodeCounts(seasons, infos) ==
  IF seasons = <<>> THEN 0
  ELSE infos[seasons[1].v].episode_count + SumEpisodeCounts(Tail(seasons), infos)

\* an update of the existing record that also takes the incoming tags
MergeIntoExistingWithTags(existing, season_info) ==
  TheOne({ [existing EXCEPT !.episodes = episodes, !.episode_count = Len(episodes),
                            !.tags = AppendNew(existing.tags, season_info.tags)]
           : episodes \in {DictUpdate(existing.episodes, season_info.episodes)} })

\* existing.episodes.update(season_info.episodes)
\* existing.episode_count = len(existing.episodes)
MergeIntoExisting(existing, season_info) ==
  TheOne({ [existing EXCEPT !.episodes = episodes, !.episode_count = Len(episodes)]
           : episodes \in {DictUpdate(existing.episodes, season_info.episodes)} })

\* add_season without the branch for an existing season: the slot is
\* assigned the incoming record
PlaceSeasonReplacing(seasons, season_num, id, infos) ==
  [ seasons |-> DictSet(seasons, season_num, id), infos |-> infos ]

\* the if/else of add_season on self.seasons: the seasons dict and the
\* objects after it
PlaceSeason(seasons, season_num, id, infos) ==
  IF DictHas(seasons, season_num)
  THEN [ seasons |-> seasons,
         infos |-> [infos EXCEPT ![DictGet(seasons, season_num)] =
                      MergeIntoExisting(infos[DictGet(seasons, season_num)], infos[id])] ]
  ELSE [ seasons |-> DictSet(seasons, season_num, id), infos |-> infos ]

\* add_season with the release group and the tags taken over only in the
\* branch that creates the slot
AddSeasonUnionOnNewSlot(self, id, infos) ==
  TheOne({ [ bangumi |->
               [ series_name |-> IF self.series_name = <<>> THEN infos[id].series_name
                                 ELSE self.series_name,
                 seasons |-> placed.seasons,
                 total_episodes |-> SumEpisodeCounts(placed.seasons, placed.infos),
                 season_count |-> Len(placed.seasons),
                 release_groups |->
                   IF Truthy(infos[id].release_group) /\ Len(placed.seasons) > Len(self.seasons)
                   THEN AppendNew(self.release_groups, infos[id].release_group)
                   ELSE self.release_groups,
                 tags |-> IF Len(placed.seasons) > Len(self.seasons)
                          THEN AppendNew(self.tags, infos[id].tags)
                          ELSE self.tags ],
             infos |-> placed.infos ]
           : placed \in {PlaceSeason(self.seasons, SeasonOr1(infos[id].season),
                                     id, infos)} })

\* add_season(self, season_info), where season_info is the object id of
\* infos: the BangumiInfo and the objects after the call
add_season(self, id, infos) ==
  TheOne({ [ bangumi |->
               [ series_name |-> IF self.series_name = <<>> THEN infos[id].series_name
                                 ELSE self.series_name,
                 seasons |-> placed.seasons,
                 total_episodes |-> SumEpisodeCounts(placed.seasons, placed.infos),
                 season_count |-> Len(placed.seasons),
                 release_groups |->
                   IF Truthy(infos[id].release_group)
                   THEN AppendNew(self.release_groups, infos[id].release_group)
                   ELSE self.release_groups,
                 tags |-> AppendNew(self.tags, infos[id].tags) ],
             infos |-> placed.infos ]
           : placed \in {PlaceSeason(self.seasons, SeasonOr1(infos[id].season),
                                     id, infos)} })

\* bangumi_dict[series_name], created on first use
BangumiOf(dict, series_name) ==
  IF DictHas(dict, series_name) THEN DictGet(dict, series_name)
  ELSE [NewBangumiInfo EXCEPT !.series_name = series_name]

(***************************************************************************)
(* The state of a BangumiParser running parse_and_merge                    *)
(***************************************************************************)
VARIABLES
  pc,                  \* the step of parse_and_merge that comes next
  video_files,         \* self.video_files
  series_groups,       \* self.series_groups
  series_info,         \* self.series_info: the SeriesInfo objects
  merged_same_season,  \* the dict merge_same_season_series returned: its ids
  next_info,           \* merge_multi_season_series: the index of the next item
  bangumi_dict,        \* merge_multi_season_series: bangumi_dict
  config_pc,           \* the step of BangumiConfig.__init__ that comes next
  config_path,         \* the argument of BangumiConfig.__init__
  config_file,         \* what the file system holds at config_path
  config,              \* the attributes of the BangumiConfig object
  custom_config,       \* _load_custom_config: the items still to apply
  warned               \* _load_custom_config printed its warning

parser_vars == << pc, video_files, series_groups, series_info, merged_same_season,
                  next_info, bangumi_dict >>

config_vars == << config_pc, config_path, config_file, config, custom_config,
                  warned >>

vars == << parser_vars, config_vars >>

\* BangumiParser.__init__ without a config argument: self.config is
\* BangumiConfig()
Init ==
  /\ config_pc = "done"
  /\ config_path = PyNone
  /\ config_file = [exists |-> FALSE, kind |-> "none", items |-> <<>>]
  /\ config = DefaultConfig(PyNone)
  /\ custom_config = <<>>
  /\ warned = FALSE
  /\ pc = "scan"
  /\ video_files = <<>>
  /\ series_groups = <<>>
  /\ series_info = <<>>
  /\ merged_same_season = <<>>
  /\ next_info = 1
  /\ bangumi_dict = <<>>

\* scan_directory: the video files found, as relative paths
ScanDirectory ==
  /\ pc = "scan"
  /\ \E found \in ScanResults : video_files' = found
  /\ pc' = "group"
  /\ UNCHANGED << series_groups, series_info, merged_same_season, next_info,
                  bangumi_dict >>
  /\ UNCHANGED config_vars

GroupSeries ==
  /\ pc = "group"
  /\ series_groups' = group_series(video_files)
  /\ pc' = "analyze"
  /\ UNCHANGED << video_files, series_info, merged_same_season, next_info,
                  bangumi_dict >>
  /\ UNCHANGED config_vars

AnalyzeSeries ==
  /\ pc = "analyze"
  /\ series_info' = analyze_series(series_groups)
  /\ pc' = "merge_same_season"
  /\ UNCHANGED << video_files, series_groups, merged_same_season, next_info,
                  bangumi_dict >>
  /\ UNCHANGED config_vars

\* parse_and_merge passes self.series_info
MergeSameSeasonSeries ==
  /\ pc = "merge_same_season"
  /\ \E r \in {merge_same_season_series(series_info,
                                        [i \in 1..Len(series_info) |-> i])} :
       /\ merged_same_season' = r.merged
       /\ series_info' = r.infos
  /\ pc' = "merge_multi_season"
  /\ UNCHANGED << video_files, series_groups, next_info, bangumi_dict >>
  /\ UNCHANGED config_vars

\* one iteration of the loop of merge_multi_season_series
AddSeason ==
  /\ pc = "merge_multi_season"
  /\ next_info <= Len(merged_same_season)
  /\ \E r \in {add_season(BangumiOf(bangumi_dict,
                                    series_info[merged_same_season[next_info]].series_name),
                          merged_same_season[next_info], series_info)} :
       /\ bangumi_dict' = DictSet(bangumi_dict,
                                 series_info[merged_same_season[next_info]].series_name,
                                 r.bangumi)
       /\ series_info' = r.infos
  /\ next_info' = next_info + 1
  /\ UNCHANGED << pc, video_files, series_groups, merged_same_season >>
  /\ UNCHANGED config_vars

\* merge_multi_season_series returns bangumi_dict
ReturnBangumi ==
  /\ pc = "merge_multi_season"
  /\ next_info > Len(merged_same_season)
  /\ pc' = "done"
  /\ UNCHANGED << video_files, series_groups, series_info, merged_same_season,
                  next_info, bangumi_dict >>
  /\ UNCHANGED config_vars

Next ==
  \/ ScanDirectory
  \/ GroupSeries
  \/ AnalyzeSeries
  \/ MergeSameSeasonSeries
  \/ AddSeason
  \/ ReturnBangumi

Spec == Init /\ [][Next]_vars


(***************************************************************************)
(* The construction of a BangumiConfig                                     *)
(***************************************************************************)

\* a call of BangumiConfig(config_path): no attribute is set yet
ConfigInit ==
  /\ config_pc = "init"
  /\ config_path \in ConfigPaths
  /\ config_file \in ConfigFiles
  /\ config = << >>
  /\ custom_config = <<>>
  /\ warned = FALSE
  /\ pc = "scan"
  /\ video_files = <<>>
  /\ series_groups = <<>>
  /\ series_info = <<>>
  /\ merged_same_season = <<>>
  /\ next_info = 1
  /\ bangumi_dict = <<>>

\* __init__: the defaults, then the custom file when a path is given and
\* the file exists
LoadDefaultConfig ==
  /\ config_pc = "init"
  /\ config' = DefaultConfig(config_path)
  /\ config_pc' = IF PyTruthy(config_path) /\ config_file.exists
                  THEN "load_custom" ELSE "done"
  /\ UNCHANGED << config_path, config_file, custom_config, warned >>
  /\ UNCHANGED parser_vars

\* _load_custom_config: open, json.load and custom_config.items(); each
\* can raise, and the handler prints the warning
ReadCustomConfig ==
  /\ config_pc = "load_custom"
  /\ IF config_file.kind = "object"
     THEN /\ custom_config' = config_file.items
          /\ config_pc' = "apply"
          /\ UNCHANGED warned
     ELSE /\ warned' = TRUE
          /\ config_pc' = "done"
          /\ UNCHANGED custom_config
  /\ UNCHANGED << config_path, config_file, config >>
  /\ UNCHANGED parser_vars

\* _load_custom_config: the body of the loop for the next item
ApplyNextEntry ==
  /\ config_pc = "apply"
  /\ custom_config # <<>>
  /\ \E r \in {ApplyCustomEntry(config, custom_config[1].k, custom_config[1].v)} :
       IF r.raised
       THEN /\ warned' = TRUE
            /\ config_pc' = "done"
            /\ UNCHANGED << config, custom_config >>
       ELSE /\ config' = r.config
            /\ custom_config' = Tail(custom_config)
            /\ UNCHANGED << config_pc, warned >>
  /\ UNCHANGED << config_path, config_file >>
  /\ UNCHANGED parser_vars

\* _load_custom_config: the loop is over
CustomConfigLoaded ==
  /\ config_pc = "apply"
  /\ custom_config = <<>>
  /\ config_pc' = "done"
  /\ UNCHANGED << config_path, config_file, config, custom_config, warned >>
  /\ UNCHANGED parser_vars

ConfigNext ==
  \/ LoadDefaultConfig
  \/ ReadCustomConfig
  \/ ApplyNextEntry
  \/ CustomConfigLoaded

ConfigSpec == ConfigInit /\ [][ConfigNext]_vars

(***************************************************************************)
(* Properties.  A step of the pipeline is recognised by the program        *)
(* counter; the records of a step's argument are series_info, those after  *)
(* it series_info'.                                                        *)
(***************************************************************************)
Range(seq) == {seq[i] : i \in 1..Len(seq)}

\* the call of merge_same_season_series
MergeStep == pc = "merge_same_season" /\ pc' = "merge_multi_season"

\* a call of add_season
AddSeasonStep == pc = "merge_multi_season" /\ next_info' = next_info + 1

\* (series_name, dir_name, season-or-1) of a record
SeasonOf(info) == IF info.season = <<>> \/ info.season[1] = 0 THEN 1 ELSE info.season[1]
SeasonKey(info) == << info.series_name, info.dir_name, SeasonOf(info) >>

\* the records that share (series_name, dir_name, season-or-1) with record b
Members(infos, b) ==
  {o \in 1..Len(infos) : SeasonKey(infos[o]) = SeasonKey(infos[b])}

\* every entry of the episode map old is an entry of the episode map new
EntriesKept(old, new) ==
  \A i \in 1..Len(old) : \E j \in 1..Len(new) : new[j] = old[i]

\* C1: in merge_same_season_series, for a group of two or more records that
\* share (series_name, dir_name, season-or-1), every episode key the base
\* holds before the merge maps to the same file path after the merge.
C1_BaseEntriesKept ==
  [][MergeStep =>
       \A b \in Range(merged_same_season') :
         Cardinality(Members(series_info, b)) >= 2 =>
           EntriesKept(series_info[b].episodes, series_info'[b].episodes)]_vars

\* C1 witness: after the merge, a folded-in member (it is left as it was)
\* holds an episode key of its base with another file path.
C1_Witness ==
  /\ pc = "merge_multi_season"
  /\ \E b \in Range(merged_same_season) :
       \E o \in Members(series_info, b) \ Range(merged_same_season) :
         \E i \in 1..Len(series_info[b].episodes) :
           \E j \in 1..Len(series_info[o].episodes) :
             /\ series_info[b].episodes[i].k = series_info[o].episodes[j].k
             /\ series_info[b].episodes[i].v # series_info[o].episodes[j].v

\* the BangumiInfo of the record that the next add_season call receives,
\* when there is one with that series name
HasBangumi == DictHas(bangumi_dict, series_info[merged_same_season[next_info]].series_name)
Bangumi == DictGet(bangumi_dict, series_info[merged_same_season[next_info]].series_name)

\* the next add_season call targets an occupied season slot
SlotOccupied ==
  /\ HasBangumi
  /\ DictHas(Bangumi.seasons, SeasonOf(series_info[merged_same_season[next_info]]))

\* the record in that slot, and the record the call receives
Existing == DictGet(Bangumi.seasons, SeasonOf(series_info[merged_same_season[next_info]]))
Incoming == merged_same_season[next_info]

\* C2: when add_season receives a record whose season-or-1 slot is occupied,
\* every episode key present in the existing slot's map keeps the existing
\* file path, and the incoming keys that were absent are added.
C2_ExistingWins ==
  [][AddSeasonStep /\ SlotOccupied =>
       /\ EntriesKept(series_info[Existing].episodes, series_info'[Existing].episodes)
       /\ \A j \in 1..Len(series_info[Incoming].episodes) :
            DictHas(series_info'[Existing].episodes,
                    series_info[Incoming].episodes[j].k)]_vars

\* the sum of the numbers of a sequence
RECURSIVE SeqSum(_)
SeqSum(s) == IF s = <<>> THEN 0 ELSE s[1] + SeqSum(Tail(s))

\* C3: after every add_season call, total_episodes of a BangumiInfo is the
\* sum of episode_count over the records in its seasons, and season_count is
\* the number of its season slots.
C3_TotalsMatch ==
  \A i \in 1..Len(bangumi_dict) :
    /\ bangumi_dict[i].v.total_episodes =
         SeqSum([s \in 1..Len(bangumi_dict[i].v.seasons) |->
                   series_info[bangumi_dict[i].v.seasons[s].v].episode_count])
    /\ bangumi_dict[i].v.season_count = Len(bangumi_dict[i].v.seasons)

\* C3 witness: a BangumiInfo with two season slots, after an insertion into
\* one of its occupied slots (the record inserted is in no slot).
C3_Witness ==
  \E i \in 1..Len(bangumi_dict) :
    /\ Len(bangumi_dict[i].v.seasons) >= 2
    /\ \E n \in 1..(next_info - 1) :
         /\ series_info[merged_same_season[n]].series_name = bangumi_dict[i].k
         /\ \A s \in 1..Len(bangumi_dict[i].v.seasons) :
              bangumi_dict[i].v.seasons[s].v # merged_same_season[n]

\* C4: every SeriesInfo has episode_count equal to the number of entries of
\* its episodes map, at every stage of the pipeline.
C4_CountIsMapSize ==
  \A id \in 1..Len(series_info) :
    series_info[id].episode_count = Len(series_info[id].episodes)

\* the synthetic keys as the specification writes them (unknown-01) and as
\* the code does (U+672A U+77E5 U+96C6, then the number)
SpecSyntheticKey(n) == <<"u", "n", "k", "n", "o", "w", "n", "-">> \o Format02d(n)
CodeSyntheticKey(n) == <<"u672A", "u77E5", "u96C6">> \o Format02d(n)

\* the numbers n for which the episode map holds the synthetic key Key(n)
SyntheticNumbers(episodes, Key(_)) ==
  {n \in 1..(Len(episodes) + 1) : DictHas(episodes, Key(n))}

\* In a merge step, for the base b of a group of several members: each
\* folded-in member's episode "00" is in the base after the merge under a
\* synthetic key of its own, the number of each new synthetic key is the
\* smallest that was free, and a base {"01", "02"} with one member {"00"}
\* ends as {"01", "02", Key(1)}.
ZeroEpisodesRenamed(b, Key(_)) ==
  LET folded == Members(series_info, b) \ {b}
      zeros == {o \in folded : DictHas(series_info[o].episodes, <<"0", "0">>)}
      before == SyntheticNumbers(series_info[b].episodes, Key)
      after == SyntheticNumbers(series_info'[b].episodes, Key)
  IN /\ Cardinality(after \ before) = Cardinality(zeros)
     /\ \A n \in after \ before : \A m \in 1..(n - 1) : m \in after
     /\ {DictGet(series_info'[b].episodes, Key(n)) : n \in after \ before}
          = {DictGet(series_info[o].episodes, <<"0", "0">>) : o \in zeros}
     /\ (/\ DictKeys(series_info[b].episodes) = {<<"0", "1">>, <<"0", "2">>}
         /\ Cardinality(folded) = 1
         /\ \A o \in folded : DictKeys(series_info[o].episodes) = {<<"0", "0">>})
        => DictKeys(series_info'[b].episodes) = {<<"0", "1">>, <<"0", "2">>, Key(1)}

\* C5 as stated: a folded-in member's episode "00" is stored in the base
\* under the synthetic key unknown-N, N the smallest positive integer whose
\* key is free; {"01", "02"} merged with {"00"} gives {"01", "02", "unknown-01"}.
C5_UnknownDashN ==
  [][MergeStep =>
       \A b \in Range(merged_same_season') :
         Cardinality(Members(series_info, b)) >= 2 =>
           ZeroEpisodesRenamed(b, SpecSyntheticKey)]_vars

\* C5 as amended: the synthetic key is the three characters U+672A U+77E5
\* U+96C6 followed by N in two digits, N the smallest positive integer whose
\* key is free in the base; k folded-in members that hold a "00" episode
\* give k distinct synthetic keys.
C5_ZeroEpisodesRenamed ==
  [][MergeStep =>
       \A b \in Range(merged_same_season') :
         Cardinality(Members(series_info, b)) >= 2 =>
           ZeroEpisodesRenamed(b, CodeSyntheticKey)]_vars

\* C5 witness: after the merge a base holds the second synthetic key: two of
\* its folded-in members held a "00" episode.
C5_Witness ==
  /\ pc = "merge_multi_season"
  /\ \E b \in Range(merged_same_season) :
       /\ DictHas(series_info[b].episodes, CodeSyntheticKey(2))
       /\ Cardinality({o \in Members(series_info, b) \ {b} :
                         DictHas(series_info[o].episodes, <<"0", "0">>)}) = 2

\* a record has an episode key other than "00"
HasSpecificKey(info) ==
  \E i \in 1..Len(info.episodes) : info.episodes[i].k # <<"0", "0">>

\* the member o is folded into the record base: its tags, its keys other
\* than "00" and the file of its "00" episode are in base
FoldedInto(o, base) ==
  /\ \A t \in 1..Len(o.tags) : \E u \in 1..Len(base.tags) : base.tags[u] = o.tags[t]
  /\ \A i \in 1..Len(o.episodes) :
       IF o.episodes[i].k = <<"0", "0">>
       THEN \E j \in 1..Len(base.episodes) : base.episodes[j].v = o.episodes[i].v
       ELSE DictHas(base.episodes, o.episodes[i].k)

\* C6: in merge_same_season_series the base of a group of several members is
\* the member with the largest episode count; among equal counts a member
\* with an episode key other than "00" is chosen over one whose keys are all
\* "00"; every other member is folded into that base.
C6_BaseHasPriority ==
  [][MergeStep =>
       /\ \A id \in 1..Len(series_info) :
            \E b \in Range(merged_same_season') : id \in Members(series_info, b)
       /\ \A b \in Range(merged_same_season') :
            \A o \in Members(series_info, b) \ {b} :
              /\ o \notin Range(merged_same_season')
              /\ series_info[b].episode_count >= series_info[o].episode_count
              /\ (/\ series_info[b].episode_count = series_info[o].episode_count
                  /\ HasSpecificKey(series_info[o]))
                 => HasSpecificKey(series_info[b])
              /\ FoldedInto(series_info[o], series_info'[b])]_vars

\* C6 witness: after the merge, a folded-in member that came first in
\* series_info had as many files as its base and only the episode number 0,
\* and the base had another episode number.
C6_Witness ==
  /\ pc = "merge_multi_season"
  /\ \E b \in Range(merged_same_season) :
       \E o \in Members(series_info, b) \ Range(merged_same_season) :
         /\ o < b
         /\ Len(series_groups[o].v) = Len(series_groups[b].v)
         /\ \A x \in 1..Len(series_groups[o].v) : series_groups[o].v[x].ep = 0
         /\ \E x \in 1..Len(series_groups[b].v) : series_groups[b].v[x].ep # 0

\* the place of a file in the order of discovery
Position(path) == CHOOSE n \in 1..Len(video_files) : video_files[n] = path

\* group_series and analyze_series have run
Grouped == pc \notin {"scan", "group"}
Analyzed == pc \notin {"scan", "group", "analyze"}

\* C7 as stated: each group's files are in ascending order of episode
\* number, files with equal episode numbers in their order of discovery, and
\* the sample file of the group is the first-discovered file among those
\* with the smallest episode number.
C7_StableByEpisode ==
  /\ Grouped =>
       \A g \in 1..Len(series_groups) :
         \A i, j \in 1..Len(series_groups[g].v) :
           i < j =>
             \/ series_groups[g].v[i].ep < series_groups[g].v[j].ep
             \/ /\ series_groups[g].v[i].ep = series_groups[g].v[j].ep
                /\ Position(series_groups[g].v[i].path) < Position(series_groups[g].v[j].path)
  /\ Analyzed =>
       \A g \in 1..Len(series_groups) :
         \A i \in 1..Len(series_groups[g].v) :
           \/ series_info[g].sample_file = series_groups[g].v[i].path
           \/ series_groups[g].v[1].ep < series_groups[g].v[i].ep
           \/ /\ series_groups[g].v[1].ep = series_groups[g].v[i].ep
              /\ Position(series_info[g].sample_file) < Position(series_groups[g].v[i].path)

\* C7 as amended: each group's files are in ascending order of episode
\* number, files with equal episode numbers in ascending order of their
\* paths (as strings), and the sample file of the group is the file with
\* the smallest path among those with the smallest episode number.
C7_ByEpisodeThenPath ==
  /\ Grouped =>
       \A g \in 1..Len(series_groups) :
         \A i, j \in 1..Len(series_groups[g].v) :
           i < j =>
             \/ series_groups[g].v[i].ep < series_groups[g].v[j].ep
             \/ /\ series_groups[g].v[i].ep = series_groups[g].v[j].ep
                /\ StrLess(series_groups[g].v[i].path, series_groups[g].v[j].path)
  /\ Analyzed =>
       \A g \in 1..Len(series_groups) :
         \A i \in 1..Len(series_groups[g].v) :
           \/ series_info[g].sample_file = series_groups[g].v[i].path
           \/ series_groups[g].v[1].ep < series_groups[g].v[i].ep
           \/ /\ series_groups[g].v[1].ep = series_groups[g].v[i].ep
              /\ StrLess(series_info[g].sample_file, series_groups[g].v[i].path)

\* C7 witness: the records are built, and in a group the sample file has the
\* episode number of a file that was discovered before it.
C7_Witness ==
  /\ pc = "merge_same_season"
  /\ \E g \in 1..Len(series_groups) :
       \E i \in 2..Len(series_groups[g].v) :
         /\ series_groups[g].v[i].ep = series_groups[g].v[1].ep
         /\ series_info[g].sample_file = series_groups[g].v[1].path
         /\ Position(series_groups[g].v[i].path) < Position(series_groups[g].v[1].path)

\* no two records share (series_name, dir_name, season-or-1)
AllSingletons ==
  \A a, b \in 1..Len(series_info) :
    a # b => SeasonKey(series_info[a]) # SeasonKey(series_info[b])

\* C8: merge_same_season_series applied to records of which no two share
\* (series_name, dir_name, season-or-1) returns the same patterns mapped to
\* the same records, and changes no field of any record.
C8_SingletonsUnchanged ==
  [][MergeStep /\ AllSingletons =>
       /\ Len(merged_same_season') = Len(series_info)
       /\ Range(merged_same_season') = 1..Len(series_info)
       /\ series_info' = series_info]_vars

\* C8 witness: the merge has returned for two or more records of which no
\* two share the key, one of them built from two files with one episode
\* number.
C8_Witness ==
  /\ pc = "merge_multi_season"
  /\ next_info = 1
  /\ Len(series_info) >= 2
  /\ AllSingletons
  /\ Len(merged_same_season) = Len(series_info)
  /\ \E id \in 1..Len(series_info) :
       Len(series_groups[id].v) > Len(series_info[id].episodes)

\* the candidate files whose base filename matches no episode pattern
NoEpisodeFiles ==
  {f \in CandidateFiles :
     \A k \in 1..Len(episode_patterns) :
       ~ReSearch(episode_patterns[k], Basename(f), TRUE).ok}

\* C9: for a file whose base filename matches no episode pattern,
\* extract_series_info yields the unmodified path and episode number 0; the
\* file is in group_series under its path, and analyze_series stores it
\* under the episode key "00".
C9_NoMatchIsEpisodeZero ==
  \A n \in 1..Len(video_files) :
    video_files[n] \in NoEpisodeFiles =>
      /\ SeriesInfoOf[video_files[n]] = [pattern |-> video_files[n], ep |-> 0]
      /\ Grouped =>
           \E g \in 1..Len(series_groups) :
             /\ series_groups[g].k = video_files[n]
             /\ series_groups[g].v = << [ep |-> 0, path |-> video_files[n]] >>
      /\ pc = "merge_same_season" =>
           \E id \in 1..Len(series_info) :
             /\ series_info[id].pattern = video_files[n]
             /\ series_info[id].episodes =
                  << [k |-> <<"0", "0">>, v |-> video_files[n]] >>

\* C9 witness: the records are built for files of which one matches no
\* episode pattern and another does.
C9_Witness ==
  /\ pc = "merge_same_season"
  /\ \E n \in 1..Len(video_files) : video_files[n] \in NoEpisodeFiles
  /\ \E n \in 1..Len(video_files) : video_files[n] \notin NoEpisodeFiles

\* the records held in the season slots of the BangumiInfo objects
InSlots ==
  UNION { {bangumi_dict[i].v.seasons[s].v : s \in 1..Len(bangumi_dict[i].v.seasons)}
          : i \in 1..Len(bangumi_dict) }

\* C10 as stated: once a SeriesInfo is in a season slot, no add_season call
\* changes its episodes, episode_count, tags or release_group.
C10_FrozenInSlot ==
  [][AddSeasonStep =>
       \A id \in InSlots :
         /\ series_info'[id].episodes = series_info[id].episodes
         /\ series_info'[id].episode_count = series_info[id].episode_count
         /\ series_info'[id].tags = series_info[id].tags
         /\ series_info'[id].release_group = series_info[id].release_group]_vars

\* C10 as amended: an add_season call changes the tags and the release_group
\* of no SeriesInfo, and it changes the episodes and the episode_count of no
\* SeriesInfo but the one that occupies the slot the call targets.
C10_OnlyOccupantChanges ==
  [][AddSeasonStep =>
       \A id \in 1..Len(series_info) :
         /\ [series_info'[id] EXCEPT !.episodes = <<>>, !.episode_count = 0]
              = [series_info[id] EXCEPT !.episodes = <<>>, !.episode_count = 0]
         /\ (SlotOccupied /\ id = Existing) \/ series_info'[id] = series_info[id]]_vars

\* C10 witness: an add_season call has targeted an occupied slot with a
\* record that has tags: the record it received is in no slot.
C10_Witness ==
  /\ pc = "merge_multi_season"
  /\ \E n \in 1..(next_info - 1) :
       /\ merged_same_season[n] \notin InSlots
       /\ series_info[merged_same_season[n]].tags # <<>>

\* C11: when the loading of a custom configuration fails (the warning is
\* printed), the construction ends with every attribute at its default
\* value: no custom entry is applied.
C11_FailedLoadKeepsDefaults ==
  (config_pc = "done" /\ warned) => config = DefaultConfig(config_path)

\* the directory components of a path, outermost first
DirComponents(path) ==
  IF Dirname(path) = <<>> THEN <<>> ELSE SplitOn(Dirname(path), "/")

\* the places of the directory components that match no ignore pattern
Qualifying(path) ==
  LET parts == DirComponents(path)
  IN {i \in 1..Len(parts) : parts[i] # <<>> /\ ~IsIgnoredDirectory(parts[i])}

\* the cleaned-up base filename of a path
CleanedFilename(path) ==
  CleanName(Basename(path), extract_parameters_from_brackets(Basename(path)))

StrShow == <<"S", "h", "o", "w">>

\* the record that analyze_series built from the sample file path
HasRecordOf(path) ==
  \E id \in 1..Len(series_info) : series_info[id].sample_file = path

RecordOf(path) ==
  series_info[CHOOSE id \in 1..Len(series_info) : series_info[id].sample_file = path]

\* C12: the title of a record is the deepest directory component of its
\* sample file that matches no ignore-directory pattern (Show for
\* Show/Season 2/Show - 01.mkv); when no component qualifies it is the
\* cleaned-up filename, and "Unknown Series" when that is empty; it is never
\* empty.
C12_TitleFromDeepestDirectory ==
  pc = "merge_same_season" =>
    /\ \A id \in 1..Len(series_info) :
         LET title == series_info[id].series_name
             parts == DirComponents(series_info[id].sample_file)
             good == Qualifying(series_info[id].sample_file)
             cleaned == CleanedFilename(series_info[id].sample_file)
         IN /\ title # <<>>
            /\ IF good # {} THEN title = parts[SetMax(good)]
               ELSE IF cleaned # <<>> THEN title = cleaned
               ELSE title = UnknownSeries
    /\ HasRecordOf(<<"S", "h", "o", "w", "/", "S", "e", "a", "s", "o", "n", " ", "2", "/",
                     "S", "h", "o", "w", " ", "-", " ", "0", "1", ".", "m", "k", "v">>)
         => RecordOf(<<"S", "h", "o", "w", "/", "S", "e", "a", "s", "o", "n", " ", "2", "/",
                       "S", "h", "o", "w", " ", "-", " ", "0", "1", ".", "m", "k", "v">>).series_name
              = StrShow

\* C12 witness: records are built, one from a file below an ignored
\* directory that lies in a directory that qualifies, one from a file with
\* no qualifying directory and an empty cleaned-up filename, and one that
\* takes its title from the filename.
C12_Witness ==
  /\ pc = "merge_same_season"
  /\ \E id \in 1..Len(series_info) :
       /\ Qualifying(series_info[id].sample_file) # {}
       /\ SetMax(Qualifying(series_info[id].sample_file))
            < Len(DirComponents(series_info[id].sample_file))
  /\ \E id \in 1..Len(series_info) :
       /\ DirComponents(series_info[id].sample_file) # <<>>
       /\ series_info[id].series_name = UnknownSeries
  /\ \E id \in 1..Len(series_info) :
       /\ Qualifying(series_info[id].sample_file) = {}
       /\ series_info[id].series_name = CleanedFilename(series_info[id].sample_file)

\* the bracket tokens of the sample file of a record
TokensOf(info) == extract_parameters_from_brackets(Basename(info.sample_file))

\* the places in the vocabulary of the known release groups that the token
\* contains
GroupsIn(token) ==
  {k \in 1..Len(known_release_groups) : Contains(token, known_release_groups[k])}

\* C13: the release group of a record is none when no token of its sample
\* file contains a known release group; otherwise it is the one group that
\* comes first in the vocabulary among those the earliest such token
\* contains.
C13_FirstTokenFirstGroup ==
  pc = "merge_same_season" =>
    \A id \in 1..Len(series_info) :
      LET tokens == TokensOf(series_info[id])
          hits == {i \in 1..Len(tokens) : GroupsIn(tokens[i]) # {}}
      IN IF hits = {} THEN series_info[id].release_group = None
         ELSE series_info[id].release_group =
                Some(known_release_groups[SetMin(GroupsIn(tokens[SetMin(hits)]))])

\* C13 witness: a record is built from a file whose first token contains no
\* known group, whose next token contains two of them, and whose last token
\* contains a group that is earlier in the vocabulary than both.
C13_Witness ==
  /\ pc = "merge_same_season"
  /\ \E id \in 1..Len(series_info) :
       LET tokens == TokensOf(series_info[id])
       IN /\ Len(tokens) = 3
          /\ GroupsIn(tokens[1]) = {}
          /\ Cardinality(GroupsIn(tokens[2])) = 2
          /\ \A k \in GroupsIn(tokens[3]) : k < SetMin(GroupsIn(tokens[2]))
          /\ GroupsIn(tokens[3]) # {}
          /\ series_info[id].release_group = Some(<<"M", "C", "E">>)

\* C14 as stated: a file whose filename matches no episode pattern gives a
\* record with the literal path as grouping pattern, episode number 0, and
\* the title of the filename-cleanup fallback, not one of a directory
\* component.
C14_NoMatchTitleFromFilename ==
  pc = "merge_same_season" =>
    \A n \in 1..Len(video_files) :
      video_files[n] \in NoEpisodeFiles =>
        \E id \in 1..Len(series_info) :
          /\ series_info[id].pattern = video_files[n]
          /\ series_groups[id].v = << [ep |-> 0, path |-> video_files[n]] >>
          /\ series_info[id].series_name = OrUnknown(CleanedFilename(video_files[n]))

\* C14 as amended: such a file gives a record with the literal path as
\* grouping pattern, episode number 0, and a title obtained as for any file:
\* the deepest directory component that matches no ignore-directory pattern,
\* and the filename-cleanup fallback only when no component qualifies.
C14_NoMatchTitleAsAnyFile ==
  pc = "merge_same_season" =>
    \A n \in 1..Len(video_files) :
      video_files[n] \in NoEpisodeFiles =>
        \E id \in 1..Len(series_info) :
          LET good == Qualifying(video_files[n])
          IN /\ series_info[id].pattern = video_files[n]
             /\ series_groups[id].v = << [ep |-> 0, path |-> video_files[n]] >>
             /\ series_info[id].series_name =
                  IF good # {} THEN DirComponents(video_files[n])[SetMax(good)]
                  ELSE OrUnknown(CleanedFilename(video_files[n]))

\* C14 witness: records are built from a file in a directory and from a
\* file in no directory, both matching no episode pattern.
C14_Witness ==
  /\ pc = "merge_same_season"
  /\ \E n \in 1..Len(video_files) :
       video_files[n] \in NoEpisodeFiles /\ Qualifying(video_files[n]) # {}
  /\ \E n \in 1..Len(video_files) :
       video_files[n] \in NoEpisodeFiles /\ DirComponents(video_files[n]) = <<>>

\* record a comes before record b in the priority order of a group: more
\* episodes first, then a record with a key other than "00", and records
\* that agree in both in the order of the input
Outranks(infos, a, b) ==
  \/ infos[a].episode_count > infos[b].episode_count
  \/ /\ infos[a].episode_count = infos[b].episode_count
     /\ HasSpecificKey(infos[a]) /\ ~HasSpecificKey(infos[b])
  \/ /\ infos[a].episode_count = infos[b].episode_count
     /\ HasSpecificKey(infos[a]) = HasSpecificKey(infos[b])
     /\ a < b

\* the records of the set S in priority order
InPriorityOrder(infos, S) ==
  CHOOSE q \in [1..Cardinality(S) -> S] :
    \A i, j \in 1..Cardinality(S) : i < j => Outranks(infos, q[i], q[j])

\* the place of the tag in the list tags, 0 when it is not there
TagPlace(tags, tag) ==
  IF \E i \in 1..Len(tags) : tags[i] = tag
  THEN CHOOSE i \in 1..Len(tags) : tags[i] = tag
  ELSE 0

\* the tag x is seen before the tag y when the records q of infos are read
\* one after the other, each from its first tag to its last
SeenBefore(infos, q, x, y) ==
  \E i \in 1..Len(q) :
    /\ TagPlace(infos[q[i]].tags, x) > 0
    /\ \A j \in 1..(i - 1) : TagPlace(infos[q[j]].tags, y) = 0
    /\ \/ TagPlace(infos[q[i]].tags, y) = 0
       \/ TagPlace(infos[q[i]].tags, x) < TagPlace(infos[q[i]].tags, y)

\* C15: after merge_same_season_series has merged a group of several
\* members, the tags of the base are its tags of before, in their order,
\* followed by the tags of the other members that it did not have, in the
\* order in which they are seen member by member in priority order; no tag
\* is there twice.
C15_TagsInFirstSeenOrder ==
  [][MergeStep =>
       \A b \in Range(merged_same_season') :
         Cardinality(Members(series_info, b)) >= 2 =>
           LET old == series_info[b].tags
               new == series_info'[b].tags
               q == <<b>> \o InPriorityOrder(series_info, Members(series_info, b) \ {b})
           IN /\ Len(new) >= Len(old)
              /\ SubSeq(new, 1, Len(old)) = old
              /\ \A i, j \in 1..Len(new) : i # j => new[i] # new[j]
              /\ Range(new) = UNION {Range(series_info[o].tags) : o \in Range(q)}
              /\ \A i, j \in 1..Len(new) :
                   i < j => SeenBefore(series_info, q, new[i], new[j])]_vars

\* C15 witness: after the merge a base has the tags of before and two more,
\* one from each of two other members; the member that was discovered
\* first of all has no key other than "00" and comes last in priority
\* order, and the other one holds a tag that the base had already.
C15_Witness ==
  /\ pc = "merge_multi_season"
  /\ next_info = 1
  /\ \E b \in Range(merged_same_season) :
       \E o1, o2 \in Members(series_info, b) \ {b} :
         /\ Position(series_info[o1].sample_file) = 1
         /\ ~HasSpecificKey(series_info[o1])
         /\ HasSpecificKey(series_info[o2])
         /\ Len(series_info[b].tags) = 4
         /\ series_info[b].tags[2] \in Range(series_info[o2].tags)
         /\ series_info[b].tags[3] \in Range(series_info[o2].tags)
         /\ series_info[b].tags[4] \in Range(series_info[o1].tags)
         /\ series_info[b].tags[3] \in Range(series_info[o1].tags)

\* C16: in merge_same_season_series the release group of a base that has
\* one is left as it is; a base that has none gets the release group of the
\* first member in priority order that has one.
C16_ReleaseGroupBackfilled ==
  [][MergeStep =>
       \A b \in Range(merged_same_season') :
         Cardinality(Members(series_info, b)) >= 2 =>
           LET q == InPriorityOrder(series_info, Members(series_info, b) \ {b})
               having == {i \in 1..Len(q) : Truthy(series_info[q[i]].release_group)}
           IN series_info'[b].release_group =
                IF Truthy(series_info[b].release_group) \/ having = {}
                THEN series_info[b].release_group
                ELSE series_info[q[SetMin(having)]].release_group]_vars

\* C16 witness: after the merge a base whose sample file has no bracket
\* token has the release group of a member, and a member of lower priority
\* that was discovered before that one has another release group.
C16_Witness ==
  /\ pc = "merge_multi_season"
  /\ next_info = 1
  /\ \E b \in Range(merged_same_season) :
       \E o1, o2 \in Members(series_info, b) \ {b} :
         /\ TokensOf(series_info[b]) = <<>>
         /\ o1 < o2
         /\ Outranks(series_info, o2, o1)
         /\ Truthy(series_info[o1].release_group)
         /\ series_info[o1].release_group # series_info[o2].release_group
         /\ series_info[b].release_group = series_info[o2].release_group

\* the records that add_season has received for the BangumiInfo named name,
\* in the order of the calls
RECURSIVE InsertedUpTo(_, _)
InsertedUpTo(name, n) ==
  IF n = 0 THEN <<>>
  ELSE IF series_info[merged_same_season[n]].series_name = name
       THEN Append(InsertedUpTo(name, n - 1), merged_same_season[n])
       ELSE InsertedUpTo(name, n - 1)

Inserted(name) == InsertedUpTo(name, next_info - 1)

\* the release group of a record as a list of tags: empty or of one element
GroupAsTags(infos) ==
  [id \in 1..Len(infos) |->
     [tags |-> IF Truthy(infos[id].release_group) THEN infos[id].release_group ELSE <<>>]]

\* the list holds the tags of the records q of infos, each once, in
\* first-seen order
IsFirstSeenUnion(list, infos, q) ==
  /\ \A i, j \in 1..Len(list) : i # j => list[i] # list[j]
  /\ Range(list) = UNION {Range(infos[o].tags) : o \in Range(q)}
  /\ \A i, j \in 1..Len(list) : i < j => SeenBefore(infos, q, list[i], list[j])

\* C17: after any sequence of add_season calls, release_groups of a
\* BangumiInfo holds the release group of every record it received that had
\* one, and tags every tag of every record it received, each once and in
\* first-seen order, whether the call created a slot or found it occupied.
C17_AggregatesAreUnions ==
  \A i \in 1..Len(bangumi_dict) :
    /\ IsFirstSeenUnion(bangumi_dict[i].v.tags, series_info, Inserted(bangumi_dict[i].k))
    /\ IsFirstSeenUnion(bangumi_dict[i].v.release_groups, GroupAsTags(series_info),
                        Inserted(bangumi_dict[i].k))

\* C17 witness: a BangumiInfo has received two records with tags and a
\* release group; the second found its slot occupied and brought a release
\* group and a tag that were new and a tag that was there already.
C17_Witness ==
  /\ pc = "merge_multi_season"
  /\ \E i \in 1..Len(bangumi_dict) :
       LET q == Inserted(bangumi_dict[i].k)
       IN /\ Len(q) = 2
          /\ Len(bangumi_dict[i].v.seasons) = 1
          /\ Len(bangumi_dict[i].v.release_groups) = 2
          /\ series_info[q[1]].tags # <<>>
          /\ Range(series_info[q[2]].tags) \ Range(series_info[q[1]].tags) # {}
          /\ Range(series_info[q[2]].tags) \cap Range(series_info[q[1]].tags) # {}

\* C18: a season number that is present is >= 1; records with the same title
\* whose season numbers are both present and differ are not merged together
\* by merge_same_season_series (each record with a season leaves a record of
\* its title, directory and season, or of no season when its season is 1)
\* and are not put into the same season slot; only an absent season counts
\* as season 1.
C18_SeasonsKeptApart ==
  [][/\ MergeStep =>
          \A a \in 1..Len(series_info) :
            series_info[a].season # None =>
              /\ series_info[a].season[1] >= 1
              /\ \E m \in Range(merged_same_season') :
                   /\ series_info'[m].series_name = series_info[a].series_name
                   /\ series_info'[m].dir_name = series_info[a].dir_name
                   /\ \/ series_info'[m].season = series_info[a].season
                      \/ series_info'[m].season = None /\ series_info[a].season[1] = 1
     /\ (AddSeasonStep /\ SlotOccupied) =>
          \/ series_info[Existing].season = None
          \/ series_info[Incoming].season = None
          \/ series_info[Existing].season = series_info[Incoming].season]_vars

\* the places of the final catalog that hold the file path: the BangumiInfo,
\* its season slot and the episode key
Occurrences(path) ==
  {place \in UNION { UNION { {<<i, s, e>> :
                                e \in 1..Len(series_info[bangumi_dict[i].v.seasons[s].v].episodes)}
                             : s \in 1..Len(bangumi_dict[i].v.seasons) }
                     : i \in 1..Len(bangumi_dict) } :
     series_info[bangumi_dict[place[1]].v.seasons[place[2]].v].episodes[place[3]].v = path}

\* the provisional group of a file, and the episode number of the file
GroupOfFile(path) ==
  CHOOSE g \in 1..Len(series_groups) :
    \E j \in 1..Len(series_groups[g].v) : series_groups[g].v[j].path = path

EpisodeOfFile(path) ==
  LET v == series_groups[GroupOfFile(path)].v
  IN v[CHOOSE j \in 1..Len(v) : v[j].path = path].ep

\* another file of the same title and season-or-1 has the episode number of
\* the file
Clashes(path) ==
  \E n \in 1..Len(video_files) :
    /\ video_files[n] # path
    /\ EpisodeOfFile(video_files[n]) = EpisodeOfFile(path)
    /\ series_info[GroupOfFile(video_files[n])].series_name
         = series_info[GroupOfFile(path)].series_name
    /\ SeasonOf(series_info[GroupOfFile(video_files[n])])
         = SeasonOf(series_info[GroupOfFile(path)])

\* C19 as stated: in the final catalog every candidate file path is the
\* value of exactly one episode key in exactly one season slot of exactly
\* one BangumiInfo.
C19_EveryFileOnce ==
  pc = "done" =>
    \A n \in 1..Len(video_files) : Cardinality(Occurrences(video_files[n])) = 1

\* C19 as amended: in the final catalog every candidate file path is the
\* value of at most one episode key in at most one season slot of at most
\* one BangumiInfo, and of exactly one when no other candidate file of the
\* same title and season-or-1 has its episode number.
C19_NoFileTwice ==
  pc = "done" =>
    \A n \in 1..Len(video_files) :
      /\ Cardinality(Occurrences(video_files[n])) <= 1
      /\ ~Clashes(video_files[n]) => Cardinality(Occurrences(video_files[n])) = 1

\* C19 witness: the final catalog of three files, of which one is missing
\* and one, which shares its episode number with no file of its title and
\* season, came into its slot by an add_season call on the occupied slot.
C19_Witness ==
  /\ pc = "done"
  /\ Len(video_files) = 3
  /\ \E n \in 1..Len(video_files) : Occurrences(video_files[n]) = {}
  /\ \E m \in 1..Len(video_files) :
       /\ ~Clashes(video_files[m])
       /\ GroupOfFile(video_files[m]) \in Range(merged_same_season) \ InSlots

\* the (series_name, dir_name, season-or-1) keys of the records ids of infos
KeysOf(infos, ids) == {SeasonKey(infos[ids[n]]) : n \in 1..Len(ids)}

\* C20: the output of merge_same_season_series holds exactly one record for
\* each (series_name, dir_name, season-or-1) key of its input, and
\* merge_same_season_series applied to that output returns the same
\* records, in the same order, with unchanged contents.
C20_MergeOfMergeIsMerge ==
  [][MergeStep =>
       /\ KeysOf(series_info', merged_same_season')
            = KeysOf(series_info, [i \in 1..Len(series_info) |-> i])
       /\ \A n, m \in 1..Len(merged_same_season') :
            n # m => SeasonKey(series_info'[merged_same_season'[n]])
                       # SeasonKey(series_info'[merged_same_season'[m]])
       /\ merge_same_season_series(series_info', merged_same_season')
            = [merged |-> merged_same_season', infos |-> series_info']]_vars

\* C20 witness: the merge has returned two records, one of them the base
\* of a group of two members.
C20_Witness ==
  /\ pc = "merge_multi_season"
  /\ next_info = 1
  /\ Len(merged_same_season) = 2
  /\ Len(series_info) = 3
  /\ \E b \in Range(merged_same_season) :
       Len(series_info[b].episodes) > Len(series_groups[b].v)

=============================================================================
